---- MODULE Spec2Model ----
(***************************************************************************)
(* A model of the mrbgpdv2 BGP speaker: the per-peer session automaton     *)
(* (src/src/peer.rs), the framed connection (src/src/connection.rs), the   *)
(* RIB pipeline (src/src/routing.rs) and the supervisor loop               *)
(* (src/src/main.rs).                                                      *)
(*                                                                         *)
(* Between peers the wire carries whole frames: a frame is the record of   *)
(* one encoded message.  Several processes run concurrently; inside one    *)
(* process the supervisor steps its peers round-robin.  One call of        *)
(* Peer::next is two atomic parts, the event dispatch and the message      *)
(* read, because the remote process runs between them.                     *)
(*                                                                         *)
(* TaskSpec has the peers of one LocRib stepped by a task each, with the   *)
(* lock sections of a handler as separate steps.                           *)
(*                                                                         *)
(* Four further specifications exercise one object each, with no peer      *)
(* built: WireSpec one Connection fed byte by byte, RibSpec one Rib,       *)
(* NlriSpec and NlriListSpec the NLRI codec of Ipv4Network.                *)
(***************************************************************************)
EXTENDS Integers, Sequences, FiniteSets, TLC

\* ------------------------------------------------------------------ bounds
\* The counter of completed next() calls saturates here.
MaxCalls == 3
\* Frames the remote end writes to the connection run byte by byte.
MaxFrames == 3
\* Networks in one NLRI field under test.
MaxNetworks == 3
\* Frames a foreign speaker may write into one peer's stream (EnvSpec).
MaxInject == 2

\* --------------------------------------------------------------- constants
\* The autonomous systems and addresses of the tests' configurations.
AS_A == 64512
AS_B == 64513
\* A third autonomous system, for the remote of a second session.
AS_D == AS_B + 1

Peers == {"A", "B", "C", "D"}
Procs == {"P1", "P2", "P3"}

Net1 == [addr |-> <<10, 100, 220, 0>>, prefix |-> 24]
Net2 == [addr |-> <<10, 100, 230, 0>>, prefix |-> 24]

\* Config: local_as local_ip remote_as remote_ip mode [network ...]
Config(p) ==
    CASE p = "A" -> [local_as |-> AS_A, local_ip |-> "127.0.0.1",
                     remote_as |-> AS_B, remote_ip |-> "127.0.0.2",
                     mode |-> "Active", networks |-> <<Net1>>]
      [] p = "B" -> [local_as |-> AS_B, local_ip |-> "127.0.0.2",
                     remote_as |-> AS_A, remote_ip |-> "127.0.0.1",
                     mode |-> "Passive", networks |-> <<Net2>>]
      [] p = "C" -> [local_as |-> AS_B, local_ip |-> "127.0.0.2",
                     remote_as |-> AS_D, remote_ip |-> "127.0.0.3",
                     mode |-> "Active", networks |-> <<>>]
      [] p = "D" -> [local_as |-> AS_D, local_ip |-> "127.0.0.3",
                     remote_as |-> AS_B, remote_ip |-> "127.0.0.2",
                     mode |-> "Passive", networks |-> <<>>]

\* The peer at the other end of p's TCP stream.
Remote(p) ==
    CHOOSE q \in Peers \ {p} :
        /\ Config(q).local_ip = Config(p).remote_ip
        /\ Config(q).remote_ip = Config(p).local_ip

\* The FSM states in the order of the handshake.
States == <<"Idle", "Connect", "OpenSent", "OpenConfirm", "Established">>

Rank(s) == CHOOSE i \in 1..Len(States) : States[i] = s

\* ------------------------------------------------------------------ events
Ev(t) == [type |-> t]

MsgEv(t, m) == [type |-> t, msg |-> m]

EventTypes ==
    {"ManualStart", "TcpConnectionConfirmed", "BgpOpen", "KeepAliveMsg",
     "UpdateMsg", "Established", "LocRib", "LocRibChanged",
     "AdjRibInChanged", "AdjRibOutChanged"}

\* ---------------------------------------------------------------- messages
new_open(my_as_number, my_ip_addr) ==
    [type |-> "Open", my_as |-> my_as_number, bgp_id |-> my_ip_addr]

new_keepalive == [type |-> "Keepalive"]

Notification == [type |-> "Notification"]

\* get_message returned None.
NoMessage == [type |-> "None"]

\* --------------------------------------------------------- path attributes
Origin(o) == [k |-> "Origin", v |-> o]

AsSequence(asns) == [k |-> "AsPath", v |-> asns]

NextHop(ip) == [k |-> "NextHop", v |-> ip]

SeqRange(s) == {s[i] : i \in 1..Len(s)}

\* AsPath::does_contain
as_path_does_contain(as_path, as_number) == as_number \in SeqRange(as_path.v)

\* RibEntry::does_contain_as: the first AsPath attribute decides.
does_contain_as(entry, as_number) ==
    LET idx == {i \in 1..Len(entry.path_attributes) :
                   entry.path_attributes[i].k = "AsPath"}
    IN  IF idx = {} THEN FALSE
        ELSE LET first == CHOOSE i \in idx : \A j \in idx : i <= j
             IN  as_path_does_contain(entry.path_attributes[first], as_number)

RibEntry(network, attrs) ==
    [network_address |-> network, path_attributes |-> attrs]

\* ------------------------------------------------------------ Ipv4Network
\* An Ipv4Network is an address of four octets and a prefix length; as in
\* ipnetwork::Ipv4Network the address keeps the host bits it was built with.
Ipv4Network(addr, prefix) == [addr |-> addr, prefix |-> prefix]

Pow2(k) == IF k = 0 THEN 1 ELSE IF k = 1 THEN 2 ELSE IF k = 2 THEN 4
           ELSE IF k = 3 THEN 8 ELSE IF k = 4 THEN 16 ELSE IF k = 5 THEN 32
           ELSE IF k = 6 THEN 64 ELSE IF k = 7 THEN 128 ELSE 256

\* ipnetwork's network(): the address with the bits beyond the prefix zero.
network(n) ==
    [k \in 1..4 |->
        LET over == n.prefix - 8 * (k - 1)
            bits == IF over < 0 THEN 0 ELSE IF over > 8 THEN 8 ELSE over
        IN  (n.addr[k] \div Pow2(8 - bits)) * Pow2(8 - bits)]

\* Ipv4Network::bytes_len
bytes_len(n) ==
    CASE n.prefix = 0 -> 1
      [] n.prefix \in 1..8 -> 2
      [] n.prefix \in 9..16 -> 3
      [] n.prefix \in 17..24 -> 4
      [] n.prefix \in 25..32 -> 5

\* impl From<&Ipv4Network> for BytesMut: the prefix, then the octets of
\* network() the prefix reaches into.
nlri_bytes(n) ==
    LET octets == network(n)
        network_bytes ==
            CASE n.prefix = 0 -> <<>>
              [] n.prefix \in 1..8 -> SubSeq(octets, 1, 1)
              [] n.prefix \in 9..16 -> SubSeq(octets, 1, 2)
              [] n.prefix \in 17..24 -> SubSeq(octets, 1, 3)
              [] n.prefix \in 25..32 -> SubSeq(octets, 1, 4)
    IN  <<n.prefix>> \o network_bytes

\* The results of a decoder: a value, an error, or a panic (an index out
\* of the slice).
Ok(v) == [res |-> "Ok", v |-> v]
Err == [res |-> "Err"]
Panic == [res |-> "Panic"]

\* Ipv4Network::from_u8_slice, the loop from index i on with the networks
\* pushed so far.  The branch for prefix 0 steps over one more byte.
RECURSIVE from_u8_slice_at(_, _, _)
from_u8_slice_at(bytes, i, networks) ==
    IF ~(Len(bytes) > i - 1) THEN Ok(networks)
    ELSE LET prefix == bytes[i]
             j == i + 1
             need == IF prefix = 0 THEN 0
                     ELSE IF prefix \in 1..8 THEN 1
                     ELSE IF prefix \in 9..16 THEN 2
                     ELSE IF prefix \in 17..24 THEN 3
                     ELSE IF prefix \in 24..32 THEN 4
                     ELSE 0
             addr == [k \in 1..4 |-> IF k <= need THEN bytes[j + k - 1]
                                     ELSE 0]
         IN  IF prefix > 32 THEN Err
             ELSE IF j + need - 1 > Len(bytes) THEN Panic
             ELSE from_u8_slice_at(bytes,
                      IF prefix = 0 THEN j + 1 ELSE j + need,
                      Append(networks, Ipv4Network(addr, prefix)))

\* from_u8_slice whose last branch ends at prefix 31.
from_u8_slice_to_31(bytes) ==
    IF bytes # <<>> /\ bytes[1] = 32 THEN Err
    ELSE from_u8_slice_at(bytes, 1, <<>>)

\* Ipv4Network::from_u8_slice
from_u8_slice(bytes) == from_u8_slice_at(bytes, 1, <<>>)

\* ------------------------------------------------------------ wire codec
\* The common header: 16 bytes of marker, the length of the whole message
\* in 2 bytes, big-endian, and the type in 1 byte.
Marker == [i \in 1..16 |-> 255]

U16(n) == <<n \div 256, n % 256>>

from_be_bytes(hi, lo) == hi * 256 + lo

TypeOpen == 1
TypeUpdate == 2
TypeKeepalive == 4

header_bytes(length, type_) == Marker \o U16(length) \o <<type_>>

\* Header::try_from: the marker is all ones, the length is in 19..4096 and
\* the type is one MessageType has a variant for.
header_try_from(bytes) ==
    LET length == from_be_bytes(bytes[17], bytes[18])
    IN  IF SubSeq(bytes, 1, 16) # Marker THEN Err
        ELSE IF length < 19 \/ length > 4096 THEN Err
        ELSE IF bytes[19] \notin {TypeOpen, TypeUpdate, TypeKeepalive} THEN Err
        ELSE Ok([length |-> length, type_ |-> bytes[19]])

\* OpenMessage: version 4, my_as, hold_time, bgp_identifier, no optional
\* parameters.
open_message(my_as_number, hold_time, my_ip_addr) ==
    [type |-> "Open", my_as |-> my_as_number, hold_time |-> hold_time,
     bgp_id |-> my_ip_addr]

open_bytes(m) ==
    header_bytes(29, TypeOpen) \o <<4>> \o U16(m.my_as) \o U16(m.hold_time)
        \o m.bgp_id \o <<0>>

\* OpenMessage::try_from: the optional parameters are skipped.
open_try_from(bytes) ==
    IF Len(bytes) < 29 THEN Err
    ELSE IF Len(bytes) < 29 + bytes[29] THEN Err
    ELSE Ok(open_message(from_be_bytes(bytes[21], bytes[22]),
                         from_be_bytes(bytes[23], bytes[24]),
                         SubSeq(bytes, 25, 28)))

keepalive_bytes == header_bytes(19, TypeKeepalive)

keepalive_try_from(bytes) ==
    IF Len(bytes) # 19 THEN Err ELSE Ok(new_keepalive)

\* One path attribute on the wire: flags, type code, length, value.
RECURSIVE asns_bytes(_)
asns_bytes(asns) ==
    IF asns = <<>> THEN <<>> ELSE U16(Head(asns)) \o asns_bytes(Tail(asns))

OriginCode(o) == CASE o = "Igp" -> 0 [] o = "Egp" -> 1 [] OTHER -> 2

path_attribute_bytes(a) ==
    CASE a.k = "Origin" -> <<64, 1, 1, OriginCode(a.v)>>
      [] a.k = "AsPath" ->
             <<64, 2, 2 + 2 * Len(a.v), 2, Len(a.v)>> \o asns_bytes(a.v)
      [] a.k = "NextHop" -> <<64, 3, 4>> \o a.v

\* The path attributes of an UPDATE, one after another.
RECURSIVE path_attributes_bytes(_)
path_attributes_bytes(attrs) ==
    IF attrs = <<>> THEN <<>>
    ELSE path_attribute_bytes(Head(attrs)) \o path_attributes_bytes(Tail(attrs))

\* The networks of an UPDATE's NLRI, one after another.
RECURSIVE networks_bytes(_)
networks_bytes(networks) ==
    IF networks = <<>> THEN <<>>
    ELSE nlri_bytes(Head(networks)) \o networks_bytes(Tail(networks))

\* UpdateMessage into bytes: no withdrawn routes, the attributes, the NLRI.
update_bytes(m) ==
    LET attrs == path_attributes_bytes(m.path_attributes)
        body == U16(0) \o U16(Len(attrs)) \o attrs \o networks_bytes(m.nlri)
    IN  header_bytes(19 + Len(body), TypeUpdate) \o body

RECURSIVE asns_from(_, _)
asns_from(bytes, count) ==
    IF count = 0 THEN <<>>
    ELSE <<from_be_bytes(bytes[1], bytes[2])>>
             \o asns_from(SubSeq(bytes, 3, Len(bytes)), count - 1)

\* One path attribute from its type code and value.
path_attribute_from(code, value) ==
    CASE code = 1 /\ Len(value) = 1 /\ value[1] \in 0..2 ->
             Ok([k |-> "Origin",
                 v |-> CASE value[1] = 0 -> "Igp" [] value[1] = 1 -> "Egp"
                         [] OTHER -> "Incomplete"])
      [] code = 2 /\ Len(value) >= 2 /\ value[1] = 2
              /\ Len(value) = 2 + 2 * value[2] ->
             Ok([k |-> "AsPath",
                 v |-> asns_from(SubSeq(value, 3, Len(value)), value[2])])
      [] code = 3 /\ Len(value) = 4 -> Ok([k |-> "NextHop", v |-> value])
      [] OTHER -> Err

\* The path attributes of an UPDATE, one after the other.
RECURSIVE path_attributes_from(_, _)
path_attributes_from(bytes, attrs) ==
    IF bytes = <<>> THEN Ok(attrs)
    ELSE IF Len(bytes) < 3 THEN Err
    ELSE LET extended == (bytes[1] \div 16) % 2 = 1
             start == IF extended THEN 5 ELSE 4
             length == IF extended /\ Len(bytes) >= 4
                       THEN from_be_bytes(bytes[3], bytes[4]) ELSE bytes[3]
         IN  IF Len(bytes) < start - 1 + length THEN Err
             ELSE LET a == path_attribute_from(bytes[2],
                               SubSeq(bytes, start, start - 1 + length))
                  IN  IF a = Err THEN Err
                      ELSE path_attributes_from(
                               SubSeq(bytes, start + length, Len(bytes)),
                               Append(attrs, a.v))

\* UpdateMessage::try_from: withdrawn routes, path attributes, NLRI; with an
\* NLRI the three mandatory attributes must be there.
update_try_from(bytes) ==
    IF Len(bytes) < 23 THEN Err
    ELSE LET wlen == from_be_bytes(bytes[20], bytes[21])
         IN  IF Len(bytes) < 23 + wlen THEN Err
             ELSE LET alen == from_be_bytes(bytes[22 + wlen], bytes[23 + wlen])
                      afrom == 24 + wlen
                  IN  IF Len(bytes) < afrom - 1 + alen THEN Err
                      ELSE LET attrs == path_attributes_from(
                                   SubSeq(bytes, afrom, afrom - 1 + alen), <<>>)
                               nets == from_u8_slice(
                                   SubSeq(bytes, afrom + alen, Len(bytes)))
                           IN  IF attrs = Err \/ nets.res # "Ok" THEN Err
                               ELSE IF /\ nets.v # <<>>
                                       /\ {"Origin", "AsPath", "NextHop"} #
                                           {attrs.v[i].k :
                                               i \in 1..Len(attrs.v)}
                               THEN Err
                               ELSE Ok([type |-> "Update",
                                        path_attributes |-> attrs.v,
                                        nlri |-> nets.v])

\* impl From<Message> for BytesMut
message_bytes(message) ==
    CASE message.type = "Open" -> open_bytes(message)
      [] message.type = "Keepalive" -> keepalive_bytes
      [] message.type = "Update" -> update_bytes(message)

\* impl TryFrom<BytesMut> for Message
message_try_from(bytes) ==
    IF Len(bytes) < 19 THEN Err
    ELSE LET header == header_try_from(SubSeq(bytes, 1, 19))
         IN  IF header = Err THEN Err
             ELSE CASE header.v.type_ = TypeOpen -> open_try_from(bytes)
                    [] header.v.type_ = TypeKeepalive ->
                           keepalive_try_from(bytes)
                    [] header.v.type_ = TypeUpdate -> update_try_from(bytes)

\* -------------------------------------------- Connection, byte by byte
\* get_index_of_message_separator reading the length one byte too far.
get_index_of_message_separator_shifted(buf) ==
    IF Len(buf) < 19 THEN Err
    ELSE Ok(from_be_bytes(buf[18], buf[19]))

\* Connection::get_index_of_message_separator
get_index_of_message_separator(buf) ==
    IF Len(buf) < 19 THEN Err
    ELSE Ok(from_be_bytes(buf[17], buf[18]))

\* Connection::split_buffer_at_message_separator on the bytes of the
\* buffer: the front split off (None when there is none) and the buffer
\* left.
split_to_message_separator(buf) ==
    LET index == get_index_of_message_separator(buf)
    IN  IF index = Err THEN [some |-> FALSE, buffer |-> buf]
        ELSE IF Len(buf) < index.v THEN [some |-> FALSE, buffer |-> buf]
        ELSE [some |-> TRUE, front |-> SubSeq(buf, 1, index.v),
              buffer |-> SubSeq(buf, index.v + 1, Len(buf))]

\* Connection::get_message on the buffer after the stream was read into it.
get_message_bytes(buf) ==
    LET split == split_to_message_separator(buf)
        decoded == IF ~split.some THEN Err
                   ELSE message_try_from(split.front)
    IN  [message |-> IF decoded = Err THEN NoMessage ELSE decoded.v,
         buffer |-> split.buffer]

\* --------------------------------------------------------------------- Rib
\* A Rib is a map from entries to their status.
RibNew == [e \in {} |-> "New"]

\* insert written with HashMap::insert: a present entry is set to New again.
insert_overwrites(rib_, entry) ==
    [e \in DOMAIN rib_ \cup {entry} |->
        IF e = entry THEN "New" ELSE rib_[e]]

\* Rib::insert: entry(..).or_insert(New)
insert(rib, entry) ==
    IF entry \in DOMAIN rib THEN rib
    ELSE [e \in DOMAIN rib \cup {entry} |->
             IF e \in DOMAIN rib THEN rib[e] ELSE "New"]

routes(rib) == DOMAIN rib

does_contain_new_route(rib) == \E e \in DOMAIN rib : rib[e] = "New"

\* update_to_all_changed that marks one New entry only.
update_to_one_changed(rib_) ==
    IF \E e \in DOMAIN rib_ : rib_[e] = "New"
    THEN LET first == CHOOSE e \in DOMAIN rib_ : rib_[e] = "New"
         IN  [rib_ EXCEPT ![first] = "UnChanged"]
    ELSE rib_

\* Rib::update_to_all_changed
update_to_all_changed(rib) == [e \in DOMAIN rib |-> "UnChanged"]

RECURSIVE InsertAll(_, _)
InsertAll(rib, entries) ==
    IF entries = {} THEN rib
    ELSE LET e == CHOOSE x \in entries : TRUE
         IN  InsertAll(insert(rib, e), entries \ {e})

\* ------------------------------------------------------- the RIB pipeline
\* The AS_PATH of an entry: the ASNs of its first AsPath attribute.
AsPathOf(entry) ==
    LET idx == {i \in 1..Len(entry.path_attributes) :
                   entry.path_attributes[i].k = "AsPath"}
    IN  IF idx = {} THEN <<>>
        ELSE entry.path_attributes[CHOOSE i \in idx : \A j \in idx : i <= j].v

AttrOf(entry, kind) ==
    LET idx == {i \in 1..Len(entry.path_attributes) :
                   entry.path_attributes[i].k = kind}
    IN  IF idx = {} THEN "none"
        ELSE entry.path_attributes[CHOOSE i \in idx : \A j \in idx : i <= j].v

\* A kernel route: destination and gateway ("link" for a connected route).
KernelRoute(dest, gw) == [dest |-> dest, gateway |-> gw]

\* LocRib::lookup_kernel_routing_table: the kernel's routes whose
\* destination is exactly the network asked for.
lookup_kernel_routing_table(kernel, network_address) ==
    {r.dest : r \in {k \in kernel : k.dest = network_address}}

\* LocRib::new: one entry per configured network the kernel has a route to.
LocRibNew(cfg, kernel) ==
    LET path_attributes ==
            <<Origin("Igp"), AsSequence(<<>>), NextHop(cfg.local_ip)>>
        found == UNION {lookup_kernel_routing_table(kernel, n) :
                           n \in SeqRange(cfg.networks)}
    IN  InsertAll(RibNew, {RibEntry(n, path_attributes) : n \in found})

\* install_from_loc_rib without the filter on the remote AS.
install_from_loc_rib_unfiltered(adj_rib_out_, loc_rib_, cfg) ==
    InsertAll(adj_rib_out_, routes(loc_rib_))

\* AdjRibOut::install_from_loc_rib
install_from_loc_rib(adj_rib_out_, loc_rib_, cfg) ==
    InsertAll(adj_rib_out_,
              {e \in routes(loc_rib_) : ~does_contain_as(e, cfg.remote_as)})

\* install_from_update without the filter on the local AS.
install_from_update_unfiltered(adj_rib_in_, update, cfg) ==
    InsertAll(adj_rib_in_,
              {RibEntry(n, update.path_attributes) :
                  n \in SeqRange(update.nlri)})

\* AdjRibIn::install_from_update: every NLRI of the UPDATE with the UPDATE's
\* attributes, unless its AS_PATH contains the local AS.
install_from_update(adj_rib_in_, update, cfg) ==
    InsertAll(adj_rib_in_,
              {e \in {RibEntry(n, update.path_attributes) :
                         n \in SeqRange(update.nlri)} :
                  ~does_contain_as(e, cfg.local_as)})

\* LocRib::intsall_from_adj_rib_in
intsall_from_adj_rib_in(loc_rib_, adj_rib_in_) ==
    InsertAll(loc_rib_, routes(adj_rib_in_))

\* LocRib::write_to_kernel_routing_table: every New entry becomes a kernel
\* route through the entry's NextHop.
write_to_kernel_routing_table(loc_rib_, kernel) ==
    kernel \cup {KernelRoute(e.network_address, AttrOf(e, "NextHop")) :
                    e \in {x \in routes(loc_rib_) : loc_rib_[x] = "New"}}

\* The UPDATE advertising one entry.
UpdateFor(entry, local_ip, local_as) ==
    [type |-> "Update",
     path_attributes |-> <<Origin("Igp"),
                           AsSequence(<<local_as>> \o AsPathOf(entry)),
                           NextHop(local_ip)>>,
     nlri |-> <<entry.network_address>>]

\* AdjRibOut::create_update_messages: one UPDATE per entry; ord is the
\* iteration order of the hash map.
create_update_messages(adj_rib_out_, local_ip, local_as, ord) ==
    [i \in 1..Len(ord) |-> UpdateFor(ord[i], local_ip, local_as)]

\* The iteration orders of a hash map with the key set S.
Orders(S) ==
    {s \in [1..Cardinality(S) -> S] :
        \A i, j \in 1..Cardinality(S) : s[i] = s[j] => i = j}

\* ------------------------------------------------------------------- state
\* EventQueue::dequeue returned None, or no call of next() is running.
NoEvent == [type |-> "None"]

VARIABLES
    procs,           \* per process: the supervisor's Vec<Peer>
    turn,            \* per process: the index of the peer the loop is at
    pc,              \* per peer: where its task is
    calls,           \* per peer: completed calls of next(), up to MaxCalls
    event,           \* per peer: the local `event` of the running next()
    state,           \* Peer.state
    event_queue,     \* Peer.event_queue
    tcp_connection,  \* Peer.tcp_connection is Some
    buffer,          \* Connection.buffer: frames read and not yet split off
    sock,            \* frames written to the peer's socket and not yet read
    link,            \* the kernel holds an established TCP stream for the peer
    closed,          \* the peer's end of the stream is closed
    loc_rib,         \* per process: the shared LocRib
    adj_rib_out,     \* Peer.adj_rib_out
    adj_rib_in,      \* Peer.adj_rib_in
    fib,             \* per process: the kernel routing table
    injected,        \* frames written so far by a foreign speaker
    conn_stream,     \* Connection.conn: bytes the remote wrote, still unread
    conn_buffer,     \* Connection.buffer, in bytes
    wrote,           \* the frames the remote wrote, in order
    returned,        \* the messages get_message returned, in order
    rib,             \* a Rib the operations of Rib are applied to
    rib_call,        \* the operation applied to rib last
    nlri             \* an Ipv4Network on its way through the NLRI codec

\* The state of the peers and their processes.
peer_vars ==
    <<procs, turn, pc, calls, event, state, event_queue, tcp_connection,
      buffer, sock, link, closed, loc_rib, adj_rib_out, adj_rib_in, fib,
      injected>>

\* The state of the units that are also run on their own: one Connection at
\* the granularity of bytes, one Rib, one pass through the NLRI codec.
unit_vars == <<conn_stream, conn_buffer, wrote, returned, rib, rib_call,
               nlri>>

vars == <<peer_vars, unit_vars>>

\* The units at rest.
ConnInit ==
    /\ conn_stream = <<>>
    /\ conn_buffer = <<>>
    /\ wrote = <<>>
    /\ returned = <<>>

RibInit == rib = RibNew /\ rib_call = [op |-> "new"]

NlriInit == nlri = [at |-> "none"]

UnitInit == ConnInit /\ RibInit /\ NlriInit

ProcOf(p) == CHOOSE pr \in Procs : p \in SeqRange(procs[pr])

Built == UNION {SeqRange(procs[pr]) : pr \in Procs}

\* The kernel routing tables the processes start with.
Kernel0 ==
    [pr \in Procs |->
        CASE pr = "P1" -> {KernelRoute(Net1, "link")}
          [] pr = "P2" -> {KernelRoute(Net2, "link")}
          [] OTHER -> {}]

\* main: one LocRib per process, built from the first configuration; one
\* Peer::new per configuration.
PeersInitAt(vec, turn0) ==
    /\ procs = vec
    /\ turn = turn0
    /\ pc = [p \in Peers |->
                IF \E pr \in Procs : p \in SeqRange(vec[pr])
                THEN "new" ELSE "absent"]
    /\ calls = [p \in Peers |-> 0]
    /\ event = [p \in Peers |-> NoEvent]
    /\ state = [p \in Peers |-> "Idle"]
    /\ event_queue = [p \in Peers |-> <<>>]
    /\ tcp_connection = [p \in Peers |-> FALSE]
    /\ buffer = [p \in Peers |-> <<>>]
    /\ sock = [p \in Peers |-> <<>>]
    /\ link = [p \in Peers |-> FALSE]
    /\ closed = [p \in Peers |-> FALSE]
    /\ fib = Kernel0
    /\ loc_rib = [pr \in Procs |->
                     IF vec[pr] = <<>> THEN RibNew
                     ELSE LocRibNew(Config(vec[pr][1]), Kernel0[pr])]
    /\ adj_rib_out = [p \in Peers |-> RibNew]
    /\ adj_rib_in = [p \in Peers |-> RibNew]
    /\ injected = 0

\* main's loop starts at the first peer of each process.
PeersInit(vec) == PeersInitAt(vec, [pr \in Procs |-> 1])

InitWith(vec) == PeersInit(vec) /\ UnitInit

\* No peer is built: a unit runs on its own.
NoPeers == [pr \in Procs |-> <<>>]

\* The tests' setup: A and B, each in a process of its own.
Init == InitWith([pr \in Procs |->
                     CASE pr = "P1" -> <<"A">>
                       [] pr = "P2" -> <<"B">>
                       [] OTHER -> <<>>])

\* Two processes of two peers each: A and D on the LocRib built from A's
\* configuration, B and C on the one built from B's.
InitMesh == InitWith([pr \in Procs |->
                         CASE pr = "P1" -> <<"A", "D">>
                           [] pr = "P2" -> <<"B", "C">>
                           [] OTHER -> <<>>])

\* turn 0: the peers of the process are not stepped by one loop; each is
\* owned by a task of its own that calls next() on it, as the tests' spawned
\* tasks do.
Tasks(pr) == turn[pr] = 0

\* C and B on one LocRib, built from C's configuration, each driven by its
\* own task; their remotes D and A are the two peers of one process, on the
\* LocRib built from A's configuration, so that B and C each learn a route
\* to Net1.
InitTasks ==
    /\ PeersInitAt([pr \in Procs |->
                       CASE pr = "P1" -> <<"A", "D">>
                         [] pr = "P2" -> <<"C", "B">>
                         [] OTHER -> <<>>],
                   [pr \in Procs |-> IF pr = "P2" THEN 0 ELSE 1])
    /\ UnitInit

\* A process with two peers on one LocRib: B and C in P2, D in P3.
InitShared == InitWith([pr \in Procs |->
                           CASE pr = "P1" -> <<"A">>
                             [] pr = "P2" -> <<"B", "C">>
                             [] OTHER -> <<"D">>])

\* ------------------------------------------------------ Peer::handle_event
\* What one call of handle_event leaves behind: the new state, the events it
\* enqueued, the messages it sent, the RIBs and the kernel table, and whether
\* it panicked.
Outcome(p) ==
    [state |-> state[p], enq |-> <<>>, out |-> <<>>,
     adj_rib_out |-> adj_rib_out[p], adj_rib_in |-> adj_rib_in[p],
     loc_rib |-> loc_rib[ProcOf(p)], fib |-> fib[ProcOf(p)],
     panic |-> FALSE]

\* State::Idle.  conn: Connection::connect(..).ok() is Some.
handle_idle(p, ev, conn) ==
    IF ev.type = "ManualStart"
    THEN IF conn
         THEN [Outcome(p) EXCEPT !.enq = <<Ev("TcpConnectionConfirmed")>>,
                                 !.state = "Connect"]
         ELSE [Outcome(p) EXCEPT !.panic = TRUE]
    ELSE Outcome(p)

\* handle_connect that sends the OPEN and forgets to move to OpenSent.
handle_connect_stays(p, ev) ==
    IF ev.type = "TcpConnectionConfirmed"
    THEN [Outcome(p) EXCEPT
             !.out = <<new_open(Config(p).local_as, Config(p).local_ip)>>]
    ELSE Outcome(p)

\* State::Connect
handle_connect(p, ev) ==
    IF ev.type = "TcpConnectionConfirmed"
    THEN IF tcp_connection[p]
         THEN [Outcome(p) EXCEPT
                  !.out = <<new_open(Config(p).local_as, Config(p).local_ip)>>,
                  !.state = "OpenSent"]
         ELSE [Outcome(p) EXCEPT !.panic = TRUE]
    ELSE Outcome(p)

\* handle_open_sent that answers every event, not only BgpOpen.
handle_open_sent_any(p, ev) ==
    [Outcome(p) EXCEPT !.out = <<new_keepalive>>, !.state = "OpenConfirm"]

\* State::OpenSent
handle_open_sent(p, ev) ==
    IF ev.type = "BgpOpen"
    THEN IF tcp_connection[p]
         THEN [Outcome(p) EXCEPT !.out = <<new_keepalive>>,
                                 !.state = "OpenConfirm"]
         ELSE [Outcome(p) EXCEPT !.panic = TRUE]
    ELSE Outcome(p)

\* handle_open_confirm that falls back to Idle on an unexpected event.
handle_open_confirm_resets(p, ev) ==
    IF ev.type = "KeepAliveMsg"
    THEN [Outcome(p) EXCEPT !.state = "Established",
                            !.enq = <<Ev("Established")>>]
    ELSE [Outcome(p) EXCEPT !.state = "Idle"]

\* State::OpenConfirm
handle_open_confirm(p, ev) ==
    IF ev.type = "KeepAliveMsg"
    THEN [Outcome(p) EXCEPT !.state = "Established",
                            !.enq = <<Ev("Established")>>]
    ELSE Outcome(p)

\* The Established | LocRibChanged arm without update_to_all_changed.
handle_loc_rib_changed_keeps_new(p) ==
    LET installed == install_from_loc_rib(adj_rib_out[p], loc_rib[ProcOf(p)],
                                          Config(p))
    IN  IF does_contain_new_route(installed)
        THEN [Outcome(p) EXCEPT !.enq = <<Ev("AdjRibOutChanged")>>,
                                !.adj_rib_out = installed]
        ELSE [Outcome(p) EXCEPT !.adj_rib_out = installed]

\* State::Established, Event::Established | Event::LocRibChanged
handle_loc_rib_changed(p) ==
    LET installed == install_from_loc_rib(adj_rib_out[p], loc_rib[ProcOf(p)],
                                          Config(p))
    IN  IF does_contain_new_route(installed)
        THEN [Outcome(p) EXCEPT
                 !.enq = <<Ev("AdjRibOutChanged")>>,
                 !.adj_rib_out = update_to_all_changed(installed)]
        ELSE [Outcome(p) EXCEPT !.adj_rib_out = installed]

\* The AdjRibOutChanged arm that sends the first UPDATE and drops the rest.
handle_adj_rib_out_changed_first(p, ord) ==
    IF adj_rib_out[p] # RibNew /\ ~tcp_connection[p]
    THEN [Outcome(p) EXCEPT !.panic = TRUE]
    ELSE [Outcome(p) EXCEPT
             !.out = create_update_messages(adj_rib_out[p],
                         Config(p).local_ip, Config(p).local_as,
                         SubSeq(ord, 1, 1))]

\* State::Established, Event::AdjRibOutChanged
handle_adj_rib_out_changed(p, ord) ==
    IF adj_rib_out[p] # RibNew /\ ~tcp_connection[p]
    THEN [Outcome(p) EXCEPT !.panic = TRUE]
    ELSE [Outcome(p) EXCEPT
             !.out = create_update_messages(adj_rib_out[p],
                         Config(p).local_ip, Config(p).local_as, ord)]

\* The UpdateMsg arm without the enqueue of AdjRibInChanged.
handle_update_msg_silent(p, update) ==
    LET installed == install_from_update(adj_rib_in[p], update, Config(p))
    IN  [Outcome(p) EXCEPT !.adj_rib_in = update_to_all_changed(installed)]

\* State::Established, Event::UpdateMsg
handle_update_msg(p, update) ==
    LET installed == install_from_update(adj_rib_in[p], update, Config(p))
    IN  IF does_contain_new_route(installed)
        THEN [Outcome(p) EXCEPT
                 !.enq = <<Ev("AdjRibInChanged")>>,
                 !.adj_rib_in = update_to_all_changed(installed)]
        ELSE [Outcome(p) EXCEPT !.adj_rib_in = installed]

\* State::Established, Event::AdjRibInChanged.  done: the kernel took the
\* routes; whatever write_to_kernel_routing_table returns is dropped.
handle_adj_rib_in_changed(p, done) ==
    LET installed == intsall_from_adj_rib_in(loc_rib[ProcOf(p)],
                                             adj_rib_in[p])
    IN  IF does_contain_new_route(installed)
        THEN [Outcome(p) EXCEPT
                 !.fib = IF done
                         THEN write_to_kernel_routing_table(installed,
                                                            fib[ProcOf(p)])
                         ELSE fib[ProcOf(p)],
                 !.enq = <<Ev("LocRibChanged")>>,
                 !.loc_rib = update_to_all_changed(installed)]
        ELSE [Outcome(p) EXCEPT !.loc_rib = installed]

\* State::Established with an arm that answers a KEEPALIVE with a KEEPALIVE.
handle_established_answers(p, ev, ord, done) ==
    CASE ev.type \in {"Established", "LocRibChanged"} ->
             handle_loc_rib_changed(p)
      [] ev.type = "AdjRibOutChanged" -> handle_adj_rib_out_changed(p, ord)
      [] ev.type = "UpdateMsg" -> handle_update_msg(p, ev.msg)
      [] ev.type = "AdjRibInChanged" ->
             handle_adj_rib_in_changed(p, done)
      [] ev.type = "KeepAliveMsg" ->
             [Outcome(p) EXCEPT !.out = <<new_keepalive>>]
      [] OTHER -> Outcome(p)

\* State::Established
handle_established(p, ev, ord, done) ==
    CASE ev.type \in {"Established", "LocRibChanged"} ->
             handle_loc_rib_changed(p)
      [] ev.type = "AdjRibOutChanged" -> handle_adj_rib_out_changed(p, ord)
      [] ev.type = "UpdateMsg" -> handle_update_msg(p, ev.msg)
      [] ev.type = "AdjRibInChanged" ->
             handle_adj_rib_in_changed(p, done)
      [] OTHER -> Outcome(p)

handle_event(p, ev, conn, ord, done) ==
    CASE state[p] = "Idle" -> handle_idle(p, ev, conn)
      [] state[p] = "Connect" -> handle_connect(p, ev)
      [] state[p] = "OpenSent" -> handle_open_sent(p, ev)
      [] state[p] = "OpenConfirm" -> handle_open_confirm(p, ev)
      [] state[p] = "Established" -> handle_established(p, ev, ord, done)
      [] OTHER -> Outcome(p)

\* ------------------------------------------------------------- Connection

\* Connection::split_buffer_at_message_separator on the buffered frames.
split_buffer_at_message_separator(data) ==
    IF data = <<>> THEN [frame |-> NoMessage, rest |-> data]
    ELSE [frame |-> Head(data), rest |-> Tail(data)]

\* Message::try_from(..).ok(): the header's type is Open, Keepalive or Update.
try_from(frame) ==
    IF frame.type \in {"Open", "Keepalive", "Update"} THEN frame ELSE NoMessage

\* Connection::get_message after the socket was drained into data.
get_message(data) ==
    LET split == split_buffer_at_message_separator(data)
    IN  [message |-> IF split.frame = NoMessage THEN NoMessage
                     ELSE try_from(split.frame),
         buffer |-> split.rest]

\* handle_message that has no arm for a KEEPALIVE.
handle_message_drops_keepalive(message) ==
    CASE message.type = "Open" -> <<MsgEv("BgpOpen", message)>>
      [] message.type = "Update" -> <<MsgEv("UpdateMsg", message)>>
      [] OTHER -> <<>>

\* Peer::handle_message: the events a received message enqueues.
handle_message(message) ==
    CASE message.type = "Open" -> <<MsgEv("BgpOpen", message)>>
      [] message.type = "Keepalive" -> <<MsgEv("KeepAliveMsg", message)>>
      [] message.type = "Update" -> <<MsgEv("UpdateMsg", message)>>
      [] OTHER -> <<>>

\* EventQueue::dequeue: the event handed out and the queue left.
dequeue(queue) == [event |-> Head(queue), rest |-> Tail(queue)]

\* EventQueue::enqueue
enqueue(queue, events) == queue \o events

\* ----------------------------------------------------------------- actions
\* main's loop: a process steps its peers in turn, once every peer of it
\* was started; a call of next() that does not return holds the loop.
CanRun(p) ==
    /\ p \in Built
    /\ \A q \in SeqRange(procs[ProcOf(p)]) : pc[q] # "new"
    /\ IF Tasks(ProcOf(p)) THEN TRUE
       ELSE procs[ProcOf(p)][turn[ProcOf(p)]] = p

\* A panic unwinds the process: its peers stop and its sockets close.
ProcessDown(pr) ==
    /\ pc' = [q \in Peers |-> IF q \in SeqRange(procs[pr]) THEN "down"
                             ELSE pc[q]]
    /\ closed' = [q \in Peers |-> IF q \in SeqRange(procs[pr]) THEN TRUE
                                 ELSE closed[q]]

\* A panic inside next(): in main's loop it unwinds the process, in a
\* spawned task it ends that task and drops the task's peer.
PanicIn(p) ==
    IF Tasks(ProcOf(p))
    THEN /\ pc' = [pc EXCEPT ![p] = "down"]
         /\ closed' = [closed EXCEPT ![p] = TRUE]
    ELSE ProcessDown(ProcOf(p))

\* Connection::send: write_all, its result dropped.
send(p, messages) ==
    sock' = IF messages # <<>> /\ link[p] /\ ~closed[Remote(p)]
            THEN [sock EXCEPT ![Remote(p)] = @ \o messages]
            ELSE sock

\* The effects of handle_event on the peer, its process and the wire.
Apply(p, r, rest) ==
    /\ state' = [state EXCEPT ![p] = r.state]
    /\ event_queue' = [event_queue EXCEPT ![p] = enqueue(rest, r.enq)]
    /\ send(p, r.out)
    /\ adj_rib_out' = [adj_rib_out EXCEPT ![p] = r.adj_rib_out]
    /\ adj_rib_in' = [adj_rib_in EXCEPT ![p] = r.adj_rib_in]
    /\ loc_rib' = [loc_rib EXCEPT ![ProcOf(p)] = r.loc_rib]
    /\ fib' = [fib EXCEPT ![ProcOf(p)] = r.fib]

\* next() returns: the supervisor moves to the next peer.
Return(p) ==
    /\ pc' = [pc EXCEPT ![p] = "ready"]
    /\ event' = [event EXCEPT ![p] = NoEvent]
    /\ calls' = [calls EXCEPT ![p] = IF @ < MaxCalls THEN @ + 1 ELSE @]
    /\ turn' = [turn EXCEPT ![ProcOf(p)] =
                   IF @ = 0 THEN 0 ELSE (@ % Len(procs[ProcOf(p)])) + 1]

AtManualStart(p) ==
    /\ CanRun(p)
    /\ pc[p] = "ready"
    /\ event_queue[p] # <<>>
    /\ state[p] = "Idle"
    /\ Head(event_queue[p]).type = "ManualStart"

\* Peer::start
Start(p) ==
    /\ pc[p] = "new"
    /\ pc' = [pc EXCEPT ![p] = "ready"]
    /\ event_queue' = [event_queue EXCEPT
                          ![p] = enqueue(@, <<Ev("ManualStart")>>)]
    /\ UNCHANGED <<unit_vars, procs, turn, calls, event, state, tcp_connection, buffer,
                   sock, link, closed, loc_rib, adj_rib_out, adj_rib_in, fib,
                   injected>>

\* A task is about to handle AdjRibInChanged in Established: the arm takes
\* the lock of the LocRib once per statement, and the other tasks run
\* between the statements.
AtAdjRibInChanged(p) ==
    /\ CanRun(p)
    /\ Tasks(ProcOf(p))
    /\ pc[p] = "ready"
    /\ event_queue[p] # <<>>
    /\ state[p] = "Established"
    /\ Head(event_queue[p]).type = "AdjRibInChanged"

\* Peer::next, first half: dequeue one event and handle it.  ManualStart in
\* Idle is the actions Connect, ConnectRefused, Listen and Accept; in a task,
\* AdjRibInChanged in Established is the four actions below.
Dispatch(p) ==
    /\ CanRun(p)
    /\ pc[p] = "ready"
    /\ ~AtManualStart(p)
    /\ ~AtAdjRibInChanged(p)
    /\ IF event_queue[p] = <<>>
       THEN /\ pc' = [pc EXCEPT ![p] = "read"]
            /\ UNCHANGED <<event, state, event_queue, sock, adj_rib_out,
                           adj_rib_in, loc_rib, fib, closed>>
       ELSE \E ord \in Orders(routes(adj_rib_out[p])), done \in BOOLEAN :
               LET d == dequeue(event_queue[p])
                   r == handle_event(p, d.event, FALSE, ord, done)
               IN  IF r.panic
                   THEN /\ PanicIn(p)
                        /\ UNCHANGED <<event, state, event_queue, sock,
                                       adj_rib_out, adj_rib_in, loc_rib, fib>>
                   ELSE /\ Apply(p, r, d.rest)
                        /\ event' = [event EXCEPT ![p] = d.event]
                        /\ pc' = [pc EXCEPT ![p] = "read"]
                        /\ UNCHANGED closed
    /\ UNCHANGED <<unit_vars, procs, turn, calls, tcp_connection, buffer, link, injected>>

\* AdjRibInChanged in a task, first lock: intsall_from_adj_rib_in.
LockInstall(p) ==
    /\ AtAdjRibInChanged(p)
    /\ LET d == dequeue(event_queue[p])
       IN  /\ event' = [event EXCEPT ![p] = d.event]
           /\ event_queue' = [event_queue EXCEPT ![p] = d.rest]
    /\ loc_rib' = [loc_rib EXCEPT ![ProcOf(p)] =
                      intsall_from_adj_rib_in(@, adj_rib_in[p])]
    /\ pc' = [pc EXCEPT ![p] = "check"]
    /\ UNCHANGED <<unit_vars, procs, turn, calls, state, tcp_connection,
                   buffer, sock, link, closed, adj_rib_out, adj_rib_in, fib,
                   injected>>

\* Second lock: does_contain_new_route; without a New entry the arm ends.
LockCheck(p) ==
    /\ pc[p] = "check"
    /\ pc' = [pc EXCEPT ![p] =
                 IF does_contain_new_route(loc_rib[ProcOf(p)])
                 THEN "write" ELSE "read"]
    /\ UNCHANGED <<unit_vars, procs, turn, calls, event, state, event_queue,
                   tcp_connection, buffer, sock, link, closed, loc_rib,
                   adj_rib_out, adj_rib_in, fib, injected>>

\* Third lock, held over write_to_kernel_routing_table, whose result is
\* dropped; then LocRibChanged is enqueued.
LockWrite(p) ==
    /\ pc[p] = "write"
    /\ \E done \in BOOLEAN :
          fib' = [fib EXCEPT ![ProcOf(p)] =
                     IF done
                     THEN write_to_kernel_routing_table(loc_rib[ProcOf(p)], @)
                     ELSE @]
    /\ event_queue' = [event_queue EXCEPT
                          ![p] = enqueue(@, <<Ev("LocRibChanged")>>)]
    /\ pc' = [pc EXCEPT ![p] = "mark"]
    /\ UNCHANGED <<unit_vars, procs, turn, calls, event, state,
                   tcp_connection, buffer, sock, link, closed, loc_rib,
                   adj_rib_out, adj_rib_in, injected>>

\* Fourth lock: update_to_all_changed.
LockMark(p) ==
    /\ pc[p] = "mark"
    /\ loc_rib' = [loc_rib EXCEPT ![ProcOf(p)] = update_to_all_changed(@)]
    /\ pc' = [pc EXCEPT ![p] = "read"]
    /\ UNCHANGED <<unit_vars, procs, turn, calls, event, state, event_queue,
                   tcp_connection, buffer, sock, link, closed, adj_rib_out,
                   adj_rib_in, fib, injected>>

\* Active mode, Connection::connect_to_remote_peer: the remote is listening.
Connect(p) ==
    /\ AtManualStart(p)
    /\ Config(p).mode = "Active"
    /\ pc[Remote(p)] = "accept" /\ ~link[Remote(p)]
    /\ LET d == dequeue(event_queue[p])
       IN  /\ Apply(p, handle_event(p, d.event, TRUE, <<>>, TRUE), d.rest)
           /\ event' = [event EXCEPT ![p] = d.event]
    /\ tcp_connection' = [tcp_connection EXCEPT ![p] = TRUE]
    /\ link' = [link EXCEPT ![p] = TRUE, ![Remote(p)] = TRUE]
    /\ pc' = [pc EXCEPT ![p] = "read"]
    /\ UNCHANGED <<unit_vars, procs, turn, calls, buffer, closed, injected>>

\* Active mode, nobody listens at the remote address: connect fails and
\* handle_event panics.
ConnectRefused(p) ==
    /\ AtManualStart(p)
    /\ Config(p).mode = "Active"
    /\ ~(pc[Remote(p)] = "accept" /\ ~link[Remote(p)])
    /\ handle_event(p, Head(event_queue[p]), FALSE, <<>>, TRUE).panic
    /\ PanicIn(p)
    /\ UNCHANGED <<unit_vars, procs, turn, calls, event, state, event_queue,
                   tcp_connection, buffer, sock, link, loc_rib, adj_rib_out,
                   adj_rib_in, fib, injected>>

\* Passive mode, Connection::wait_connection_from_remote_peer: bind, then
\* wait in accept.
Listen(p) ==
    /\ AtManualStart(p)
    /\ Config(p).mode = "Passive"
    /\ pc' = [pc EXCEPT ![p] = "accept"]
    /\ event' = [event EXCEPT ![p] = dequeue(event_queue[p]).event]
    /\ event_queue' = [event_queue EXCEPT ![p] = dequeue(@).rest]
    /\ UNCHANGED <<unit_vars, procs, turn, calls, state, tcp_connection, buffer, sock,
                   link, closed, loc_rib, adj_rib_out, adj_rib_in, fib,
                   injected>>

\* accept returns the stream the remote opened; handle_event goes on.
Accept(p) ==
    /\ pc[p] = "accept"
    /\ link[p]
    /\ Apply(p, handle_event(p, event[p], TRUE, <<>>, TRUE), event_queue[p])
    /\ tcp_connection' = [tcp_connection EXCEPT ![p] = TRUE]
    /\ pc' = [pc EXCEPT ![p] = "read"]
    /\ UNCHANGED <<unit_vars, procs, turn, calls, event, buffer, link, closed,
                   injected>>

\* The read half of next() with `while let` in the place of `if let`: every
\* buffered message is handed to handle_message in one call.
Read_drains(p) ==
    /\ pc[p] = "read"
    /\ IF ~tcp_connection[p]
       THEN UNCHANGED <<event_queue, buffer, sock>>
       ELSE /\ ~closed[Remote(p)]
            /\ LET data == buffer[p] \o sock[p]
                   all == [i \in 1..Len(data) |-> try_from(data[i])]
                   evs == [i \in 1..Len(data) |->
                              IF all[i] = NoMessage THEN NoEvent
                              ELSE handle_message(all[i])[1]]
               IN  /\ buffer' = [buffer EXCEPT ![p] = <<>>]
                   /\ sock' = [sock EXCEPT ![p] = <<>>]
                   /\ event_queue' = [event_queue EXCEPT ![p] =
                          enqueue(@, SelectSeq(evs, LAMBDA e : e # NoEvent))]
    /\ Return(p)
    /\ UNCHANGED <<unit_vars, procs, state, tcp_connection, link, closed, loc_rib,
                   adj_rib_out, adj_rib_in, fib, injected>>

\* Peer::next, second half: with a connection, drain the socket into the
\* buffer and hand at most one message to handle_message.
Read(p) ==
    /\ pc[p] = "read"
    /\ IF ~tcp_connection[p]
       THEN UNCHANGED <<event_queue, buffer, sock>>
       ELSE /\ ~closed[Remote(p)]
            /\ LET got == get_message(buffer[p] \o sock[p])
               IN  /\ buffer' = [buffer EXCEPT ![p] = got.buffer]
                   /\ sock' = [sock EXCEPT ![p] = <<>>]
                   /\ event_queue' = [event_queue EXCEPT ![p] =
                          enqueue(@, handle_message(got.message))]
    /\ Return(p)
    /\ UNCHANGED <<unit_vars, procs, state, tcp_connection, link, closed, loc_rib,
                   adj_rib_out, adj_rib_in, fib, injected>>

\* The remote closed the stream while data it had not read was waiting: its
\* kernel reset the connection, and reads and writes on it now fail.
StreamReset(p) == closed[Remote(p)] /\ sock[Remote(p)] # <<>>

\* Connection::read_data_from_tcp_connection on a stream the remote closed
\* in order: after the data, try_read_buf returns Ok(0) every time and the
\* loop has no way out.
ReadEof(p) ==
    /\ pc[p] = "read"
    /\ tcp_connection[p]
    /\ closed[Remote(p)]
    /\ ~StreamReset(p)
    /\ buffer' = [buffer EXCEPT ![p] = @ \o sock[p]]
    /\ sock' = [sock EXCEPT ![p] = <<>>]
    /\ pc' = [pc EXCEPT ![p] = "spin"]
    /\ UNCHANGED <<unit_vars, procs, turn, calls, event, state, event_queue,
                   tcp_connection, link, closed, loc_rib, adj_rib_out,
                   adj_rib_in, fib, injected>>

\* Connection::read_data_from_tcp_connection on a reset stream: try_read_buf
\* returns an error other than WouldBlock and the loop panics.
ReadReset(p) ==
    /\ pc[p] = "read"
    /\ tcp_connection[p]
    /\ StreamReset(p)
    /\ PanicIn(p)
    /\ UNCHANGED <<unit_vars, procs, turn, calls, event, state, event_queue,
                   tcp_connection, buffer, sock, link, loc_rib, adj_rib_out,
                   adj_rib_in, fib, injected>>

\* The owner of a peer drops it between two calls of next() (the tests'
\* remote task ends): its socket closes.
Drop(p) ==
    /\ pc[p] = "ready"
    /\ tcp_connection[p]
    /\ pc' = [pc EXCEPT ![p] = "down"]
    /\ closed' = [closed EXCEPT ![p] = TRUE]
    /\ UNCHANGED <<unit_vars, procs, turn, calls, event, state, event_queue,
                   tcp_connection, buffer, sock, link, loc_rib, adj_rib_out,
                   adj_rib_in, fib, injected>>

\* The frames a foreign speaker at the remote address may write.
ForeignFrames ==
    {new_open(AS_B, "127.0.0.2"), new_keepalive, Notification,
     [type |-> "Update",
      path_attributes |-> <<Origin("Igp"), AsSequence(<<AS_B>>),
                            NextHop("127.0.0.2")>>,
      nlri |-> <<Net2>>],
     [type |-> "Update",
      path_attributes |-> <<Origin("Igp"), AsSequence(<<AS_B, AS_A>>),
                            NextHop("127.0.0.2")>>,
      nlri |-> <<Net2>>]}

\* A foreign speaker writes a frame into the peer's stream.
Inject(p, frame) ==
    /\ link[p]
    /\ ~closed[p]
    /\ injected < MaxInject
    /\ injected' = injected + 1
    /\ sock' = [sock EXCEPT ![p] = Append(@, frame)]
    /\ UNCHANGED <<unit_vars, procs, turn, pc, calls, event, state, event_queue,
                   tcp_connection, buffer, link, closed, loc_rib, adj_rib_out,
                   adj_rib_in, fib>>

\* ---------------------------------------------------------- specifications
Step(p) ==
    \/ Start(p)
    \/ Dispatch(p)
    \/ Connect(p)
    \/ ConnectRefused(p)
    \/ Listen(p)
    \/ Accept(p)
    \/ Read(p)

Next == \E p \in Peers : Step(p)

\* Two peers, one process each, stepped as the tests step them.
Spec == Init /\ [][Next]_vars

\* Both tasks keep being stepped.
FairSpec == Spec /\ \A p \in {"A", "B"} : WF_vars(Step(p))

NextEnv ==
    \/ \E p \in Peers : Step(p)
    \/ \E p \in Peers : ReadEof(p)
    \/ \E p \in Peers : ReadReset(p)
    \/ \E p \in Peers : Drop(p)
    \/ \E frame \in ForeignFrames : Inject("A", frame)

\* The same two peers with a remote that may also write frames of its own
\* and with owners that may drop a peer.
EnvSpec == Init /\ [][NextEnv]_vars

NextShared ==
    \/ \E p \in Peers : Step(p)
    \/ \E p \in Peers : ReadEof(p)
    \/ \E p \in Peers : ReadReset(p)

\* Two peers of one process on one LocRib, each with a remote of its own.
SharedSpec == InitShared /\ [][NextShared]_vars

\* Two processes with two sessions between them, each process stepping its
\* peers in main's loop.
MeshSpec == InitMesh /\ [][Next]_vars

NextTasks ==
    \/ \E p \in Peers : Step(p)
    \/ \E p \in Peers : LockInstall(p)
    \/ \E p \in Peers : LockCheck(p)
    \/ \E p \in Peers : LockWrite(p)
    \/ \E p \in Peers : LockMark(p)

\* B and C on one LocRib, each stepped by a task of its own; B learns a
\* route from A, C one from D.
TaskSpec == InitTasks /\ [][NextTasks]_vars

FairSharedSpec == SharedSpec /\ \A p \in Peers : WF_vars(Step(p))

\* -------------------------------------------------------- the NLRI codec
\* The octets the addresses of the networks under test are made of.
NlriOctets == {0, 5, 220, 255}

\* Every Ipv4Network over these octets, host bits or not.
InitNlri ==
    /\ PeersInit(NoPeers)
    /\ ConnInit
    /\ RibInit
    /\ nlri \in {[at |-> "new", n |-> Ipv4Network(a, l)] :
                    a \in [1..4 -> NlriOctets], l \in 0..32}

\* BytesMut::from(&network), with bytes_len next to it.
NlriEncode ==
    /\ nlri.at = "new"
    /\ nlri' = [at |-> "encoded", n |-> nlri.n,
                bytes |-> nlri_bytes(nlri.n), len |-> bytes_len(nlri.n)]
    /\ UNCHANGED <<peer_vars, conn_stream, conn_buffer, wrote, returned, rib,
                   rib_call>>

\* Ipv4Network::from_u8_slice on the encoding.
NlriDecode ==
    /\ nlri.at = "encoded"
    /\ nlri' = [at |-> "decoded", n |-> nlri.n, bytes |-> nlri.bytes,
                len |-> nlri.len, out |-> from_u8_slice(nlri.bytes)]
    /\ UNCHANGED <<peer_vars, conn_stream, conn_buffer, wrote, returned, rib,
                   rib_call>>

NextNlri == NlriEncode \/ NlriDecode

\* One network through the encoder and the decoder.
NlriSpec == InitNlri /\ [][NextNlri]_vars

\* ------------------------------------------------ the NLRI of an UPDATE
\* Networks of every length of encoding, the default route among them.
NlriNetworks ==
    {Ipv4Network(<<0, 0, 0, 0>>, 0),
     Ipv4Network(<<10, 0, 0, 0>>, 8),
     Ipv4Network(<<10, 100, 0, 0>>, 16),
     Net1,
     Ipv4Network(<<10, 100, 220, 5>>, 32)}

\* Prefix bytes no Ipv4Network has.
BadPrefixes == {33, 255}

\* Every list of one to MaxNetworks of these networks.
InitNlriList ==
    /\ PeersInit(NoPeers)
    /\ ConnInit
    /\ RibInit
    /\ \E k \in 1..MaxNetworks :
           nlri \in {[at |-> "list", networks |-> l] :
                        l \in [1..k -> NlriNetworks]}

\* The encodings of the networks one after another, as an UPDATE carries
\* them.
NlriListEncode ==
    /\ nlri.at = "list"
    /\ nlri' = [at |-> "bytes", networks |-> nlri.networks, bad |-> FALSE,
                bytes |-> networks_bytes(nlri.networks)]
    /\ UNCHANGED <<peer_vars, conn_stream, conn_buffer, wrote, returned, rib,
                   rib_call>>

\* The bytes arrive with the first prefix byte above 32.
NlriListCorrupt(prefix) ==
    /\ nlri.at = "bytes"
    /\ ~nlri.bad
    /\ nlri' = [nlri EXCEPT !.bad = TRUE,
                            !.bytes = <<prefix>> \o Tail(nlri.bytes)]
    /\ UNCHANGED <<peer_vars, conn_stream, conn_buffer, wrote, returned, rib,
                   rib_call>>

\* Ipv4Network::from_u8_slice on the bytes.
NlriListDecode ==
    /\ nlri.at = "bytes"
    /\ nlri' = [at |-> "decoded", networks |-> nlri.networks,
                bad |-> nlri.bad, bytes |-> nlri.bytes,
                out |-> from_u8_slice(nlri.bytes)]
    /\ UNCHANGED <<peer_vars, conn_stream, conn_buffer, wrote, returned, rib,
                   rib_call>>

NextNlriList ==
    \/ NlriListEncode
    \/ \E prefix \in BadPrefixes : NlriListCorrupt(prefix)
    \/ NlriListDecode

\* A list of networks through the encoder and the decoder.
NlriListSpec == InitNlriList /\ [][NextNlriList]_vars

\* ----------------------------------------------------------------- a Rib
\* Entries for two networks; two of them differ in the AS_PATH alone.
RibEntries ==
    {RibEntry(n, <<Origin("Igp"), AsSequence(a), NextHop("127.0.0.1")>>) :
        n \in {Net1, Net2}, a \in {<<>>, <<AS_A>>}}

InitRib == PeersInit(NoPeers) /\ ConnInit /\ RibInit /\ NlriInit

\* Rib::insert
RibInsert(entry) ==
    /\ rib' = insert(rib, entry)
    /\ rib_call' = [op |-> "insert", entry |-> entry, before |-> rib]
    /\ UNCHANGED <<peer_vars, conn_stream, conn_buffer, wrote, returned, nlri>>

\* Rib::update_to_all_changed
RibUpdateToAllChanged ==
    /\ rib' = update_to_all_changed(rib)
    /\ rib_call' = [op |-> "update_to_all_changed", before |-> rib]
    /\ UNCHANGED <<peer_vars, conn_stream, conn_buffer, wrote, returned, nlri>>

NextRib ==
    \/ \E entry \in RibEntries : RibInsert(entry)
    \/ RibUpdateToAllChanged

\* One Rib under every sequence of its operations.
RibSpec == InitRib /\ [][NextRib]_vars

\* ------------------------------------------- one Connection, byte by byte
\* A frame the remote end writes: its bytes and the message they encode
\* (NoMessage for bytes that are not a valid message).
Frame(message) == [bytes |-> message_bytes(message), msg |-> message]

BadFrame(bytes) == [bytes |-> bytes, msg |-> NoMessage]

WireFrames ==
    {Frame(new_keepalive),
     Frame(open_message(AS_B, 180, <<127, 0, 0, 2>>)),
     Frame([type |-> "Update",
            path_attributes |-> <<Origin("Igp"), AsSequence(<<AS_B>>),
                                  NextHop(<<127, 0, 0, 2>>)>>,
            nlri |-> <<Net2>>]),
     \* a header of 18 bytes whose length field is 18
     BadFrame(Marker \o U16(18)),
     \* a KEEPALIVE whose length field is 0
     BadFrame(header_bytes(0, TypeKeepalive)),
     \* a KEEPALIVE whose marker starts with a zero byte
     BadFrame(<<0>> \o SubSeq(keepalive_bytes, 2, 19)),
     \* a header with a type nobody knows
     BadFrame(header_bytes(19, 9))}

InitWire == PeersInit(NoPeers) /\ ConnInit /\ RibInit /\ NlriInit

\* The remote end writes one frame to the stream.
RemoteWrite(frame) ==
    /\ Len(wrote) < MaxFrames
    /\ wrote' = Append(wrote, frame)
    /\ conn_stream' = conn_stream \o frame.bytes
    /\ UNCHANGED <<peer_vars, conn_buffer, returned, rib, rib_call, nlri>>

\* Connection::get_message when n bytes of the stream have arrived:
\* read_data_from_tcp_connection moves them into the buffer, then one
\* message is split off and decoded.
GetMessage(n) ==
    /\ n <= Len(conn_stream)
    /\ LET r == get_message_bytes(conn_buffer \o SubSeq(conn_stream, 1, n))
       IN  /\ conn_buffer' = r.buffer
           /\ returned' = IF r.message = NoMessage THEN returned
                          ELSE Append(returned, r.message)
    /\ conn_stream' = SubSeq(conn_stream, n + 1, Len(conn_stream))
    /\ UNCHANGED <<peer_vars, wrote, rib, rib_call, nlri>>

\* The stream arrives in chunks of any size: a call of get_message finds
\* nothing new, one byte more, or all that was written.
NextWire ==
    \/ \E frame \in WireFrames : RemoteWrite(frame)
    \/ \E n \in {0, 1, Len(conn_stream)} : GetMessage(n)

\* One Connection fed by a remote end.
WireSpec == InitWire /\ [][NextWire]_vars

\* ------------------------------------------------------------ properties
\* A step in which handle_event of peer p ran to its end; the event it
\* handled is event'[p].
Handled(p) ==
    \/ pc[p] = "ready" /\ pc'[p] = "read" /\ event'[p] # NoEvent
    \/ pc[p] = "accept" /\ pc'[p] = "read"

\* What such a step appended to the peer's own queue.
EnqBy(p) ==
    LET base == IF pc[p] = "accept" THEN event_queue[p]
                ELSE Tail(event_queue[p])
    IN  SubSeq(event_queue'[p], Len(base) + 1, Len(event_queue'[p]))

\* What such a step wrote to the stream towards the remote peer.
SentBy(p) ==
    SubSeq(sock'[Remote(p)], Len(sock[Remote(p)]) + 1, Len(sock'[Remote(p)]))

\* C1: handle_event follows the handshake rows of the transition table.  In
\* Idle, ManualStart with the connection made enqueues TcpConnectionConfirmed
\* and moves to Connect; in Connect, TcpConnectionConfirmed sends one
\* OPEN(local_as, local_ip) and moves to OpenSent; in OpenSent, BgpOpen sends
\* one KEEPALIVE and moves to OpenConfirm; in OpenConfirm, KeepAliveMsg
\* enqueues Established and moves to Established.  No other pair of state and
\* event, and no step that is not a dispatch, changes the state.
C1_HandshakeRows ==
    [][\A p \in Peers :
          IF Handled(p)
          THEN LET s == state[p]
                   t == event'[p].type
               IN  CASE s = "Idle" /\ t = "ManualStart" ->
                            /\ state'[p] = "Connect"
                            /\ tcp_connection'[p]
                            /\ EnqBy(p) = <<Ev("TcpConnectionConfirmed")>>
                            /\ SentBy(p) = <<>>
                     [] s = "Connect" /\ t = "TcpConnectionConfirmed" ->
                            /\ state'[p] = "OpenSent"
                            /\ EnqBy(p) = <<>>
                            /\ ~closed[Remote(p)] =>
                                   SentBy(p) = <<[type |-> "Open",
                                                  my_as |-> Config(p).local_as,
                                                  bgp_id |-> Config(p).local_ip]>>
                     [] s = "OpenSent" /\ t = "BgpOpen" ->
                            /\ state'[p] = "OpenConfirm"
                            /\ EnqBy(p) = <<>>
                            /\ ~closed[Remote(p)] =>
                                   SentBy(p) = <<[type |-> "Keepalive"]>>
                     [] s = "OpenConfirm" /\ t = "KeepAliveMsg" ->
                            /\ state'[p] = "Established"
                            /\ EnqBy(p) = <<[type |-> "Established"]>>
                            /\ SentBy(p) = <<>>
                     [] OTHER -> state'[p] = state[p]
          ELSE state'[p] = state[p]]_vars

\* C1 witness: the handshake went through for B, and A in OpenConfirm is
\* about to be handed a BgpOpen, a pair the table has no row for.
C1_Witness ==
    /\ state["B"] = "Established"
    /\ state["A"] = "OpenConfirm"
    /\ pc["A"] = "ready"
    /\ event_queue["A"] # <<>>
    /\ Head(event_queue["A"]).type = "BgpOpen"

\* C3: after start(), one completed call of next() leaves the peer in
\* Connect and two leave it in OpenSent, whatever was read in those calls.
C3_OneCallConnectTwoOpenSent ==
    \A p \in Peers :
        /\ calls[p] = 1 /\ pc[p] = "ready" => state[p] = "Connect"
        /\ calls[p] = 2 /\ pc[p] = "ready" => state[p] = "OpenSent"

\* C3 witness: A returned from its second call, and each of the two calls
\* read a message and enqueued its event.
C3_Witness ==
    /\ calls["A"] = 2
    /\ pc["A"] = "ready"
    /\ Len(event_queue["A"]) = 2
    /\ \A i \in 1..2 :
           event_queue["A"][i].type \in {"BgpOpen", "KeepAliveMsg", "UpdateMsg"}

\* C4: with Idle < Connect < OpenSent < OpenConfirm < Established, no step
\* lowers the state of a peer.
C4_NeverBackwards ==
    [][\A p \in Peers : Rank(state'[p]) >= Rank(state[p])]_vars

\* C4 witness: an Established peer is about to be handed an OPEN or a
\* KEEPALIVE it has no use for.
C4_Witness ==
    \E p \in Peers :
        /\ state[p] = "Established"
        /\ pc[p] = "ready"
        /\ event_queue[p] # <<>>
        /\ Head(event_queue[p]).type \in {"BgpOpen", "KeepAliveMsg"}

\* C5: no Adj-RIB-Out holds an entry whose AS_PATH contains the remote AS of
\* its peer; a route B learned from A is never in B's Adj-RIB-Out.
C5_AdjRibOutLoopFree ==
    /\ \A p \in Peers : \A e \in DOMAIN adj_rib_out[p] :
           Config(p).remote_as \notin SeqRange(AsPathOf(e))
    /\ DOMAIN adj_rib_in["B"] \cap DOMAIN adj_rib_out["B"] = {}

\* C5 witness: B has just rebuilt its Adj-RIB-Out from a LocRib that holds
\* a route with A's AS in its path.
C5_Witness ==
    /\ event["B"].type = "LocRibChanged"
    /\ pc["B"] = "read"
    /\ adj_rib_out["B"] # RibNew
    /\ \E e \in DOMAIN loc_rib["P2"] : AS_A \in SeqRange(AsPathOf(e))

\* The handshake states a peer passes through.
Handshaking == {"Connect", "OpenSent", "OpenConfirm"}

\* C2: once the TCP stream between the active peer A and the passive peer B
\* stands and both keep being stepped, both reach Established, each through
\* OpenConfirm, and neither stays in Connect, OpenSent or OpenConfirm,
\* however the steps of the two interleave.
C2_BothReachEstablished ==
    /\ (link["A"] /\ link["B"]) ~>
           (state["A"] = "Established" /\ state["B"] = "Established")
    /\ \A p \in {"A", "B"} :
           (state[p] \in Handshaking) ~> (state[p] = "Established")
    /\ [][\A p \in {"A", "B"} :
              state'[p] = "Established" /\ state[p] # "Established" =>
                  state[p] = "OpenConfirm"]_vars

\* C2 witness: both peers are Established and between two calls.
C2_Witness ==
    /\ state["A"] = "Established" /\ pc["A"] = "ready"
    /\ state["B"] = "Established" /\ pc["B"] = "ready"

\* The entry B is to learn for A's network N.
LearnedFromA(e) ==
    /\ e.network_address = Net1
    /\ AttrOf(e, "Origin") = "Igp"
    /\ AttrOf(e, "NextHop") = Config("A").local_ip
    /\ Config("A").local_as \in SeqRange(AsPathOf(e))

\* C6: with A's LocRib seeded with a route for N and the session between A
\* and B Established, B's LocRib eventually holds an entry for N with
\* Origin=Igp, NextHop=A's local_ip and A's local_as in its AS_PATH.
C6_RoutePropagates ==
    (/\ \E e \in DOMAIN loc_rib["P1"] : e.network_address = Net1
     /\ state["A"] = "Established"
     /\ state["B"] = "Established")
        ~> (\E e \in DOMAIN loc_rib["P2"] : LearnedFromA(e))

\* C6 witness: B's LocRib holds the entry, and B got it in an UPDATE.
C6_Witness ==
    /\ \E e \in DOMAIN loc_rib["P2"] : LearnedFromA(e)
    /\ \E e \in DOMAIN adj_rib_in["B"] : LearnedFromA(e)
    /\ \E k \in fib["P2"] : k.dest = Net1

\* Nothing is pending anywhere and nobody failed: no event is queued, no
\* frame is on the wire or in a buffer.
Quiescent ==
    \A p \in Built :
        /\ pc[p] \in {"ready", "read"}
        /\ event_queue[p] = <<>>
        /\ sock[p] = <<>>
        /\ buffer[p] = <<>>

\* C7: with B and C Established on one LocRib, every entry of the LocRib
\* reaches the Adj-RIB-Out of each of them, unless its AS_PATH contains that
\* peer's remote AS: once nothing is pending, no entry is missing.
C7_FansOutToEveryPeer ==
    (Quiescent /\ state["B"] = "Established" /\ state["C"] = "Established")
        => \A p \in {"B", "C"} : \A e \in DOMAIN loc_rib["P2"] :
               \/ Config(p).remote_as \in SeqRange(AsPathOf(e))
               \/ e \in DOMAIN adj_rib_out[p]

IsPrefix(a, b) == Len(a) <= Len(b) /\ SubSeq(b, 1, Len(a)) = a

\* C8: a call of next() hands out at most one event, the head of the queue
\* as it stood when the call began, and reads at most one message; every
\* other event stays queued in its order, and what a step enqueues goes
\* behind it, so it is handed out by a later call only.
C8_FifoOnePerCall ==
    [][\A p \in Peers :
          /\ IF pc[p] = "ready" /\ pc'[p] \in {"read", "accept"}
                /\ event_queue[p] # <<>>
             THEN /\ event'[p] = Head(event_queue[p])
                  /\ IsPrefix(Tail(event_queue[p]), event_queue'[p])
             ELSE /\ IsPrefix(event_queue[p], event_queue'[p])
                  /\ event'[p] \in {event[p], NoEvent}
          /\ pc[p] = "read" =>
                 /\ Len(event_queue'[p]) <= Len(event_queue[p]) + 1
                 /\ Len(buffer'[p]) + Len(sock'[p]) >=
                        Len(buffer[p]) + Len(sock[p]) - 1]_vars

\* C8 witness: A is in a call that handled KeepAliveMsg; the Established it
\* enqueued stands behind an UpdateMsg that was enqueued earlier.
C8_Witness ==
    /\ pc["A"] = "read"
    /\ event["A"].type = "KeepAliveMsg"
    /\ Len(event_queue["A"]) = 2
    /\ event_queue["A"][1].type = "UpdateMsg"
    /\ event_queue["A"][2].type = "Established"

\* C9: every call of next() returns: no peer is held in the read loop of
\* read_data_from_tcp_connection, whatever the condition of the stream.
C9_NextAlwaysReturns == \A p \in Peers : pc[p] # "spin"

\* The message events a state has a row for.
Accepts(s, t) ==
    \/ s = "OpenSent" /\ t = "BgpOpen"
    \/ s = "OpenConfirm" /\ t = "KeepAliveMsg"
    \/ s = "Established" /\ t = "UpdateMsg"

\* C10: a received message the peer cannot handle ends the session: the
\* step that reads a NOTIFICATION, or that hands the peer an OPEN, KEEPALIVE
\* or UPDATE its state has no row for, leaves the peer terminated.
C10_UnhandledMessageTerminates ==
    [][\A p \in Peers :
          /\ (/\ Handled(p)
              /\ event'[p].type \in {"BgpOpen", "KeepAliveMsg", "UpdateMsg"}
              /\ ~Accepts(state[p], event'[p].type)) => pc'[p] = "down"
          /\ (/\ pc[p] = "read" /\ pc'[p] # "read"
              /\ tcp_connection[p]
              /\ buffer[p] \o sock[p] # <<>>
              /\ Head(buffer[p] \o sock[p]).type = "Notification")
                 => pc'[p] = "down"]_vars

\* The length the NLRI encoding of a prefix has: 1 + ceil(prefix / 8).
EncodedLength(prefix) == 1 + (prefix + 7) \div 8

\* C19 as stated: for every Ipv4Network n with prefix in 0..32, decoding the
\* NLRI encoding of n returns n, the encoding is 1 + ceil(prefix / 8) bytes
\* long and bytes_len(n) is that length.
C19_RoundTripReturnsN ==
    nlri.at = "decoded" =>
        /\ nlri.out = Ok(<<nlri.n>>)
        /\ Len(nlri.bytes) = EncodedLength(nlri.n.prefix)
        /\ nlri.len = EncodedLength(nlri.n.prefix)

\* C19 amended: decoding the NLRI encoding of n returns n with the host bits
\* beyond the prefix zero, which is n when n has none; the encoding is
\* 1 + ceil(prefix / 8) bytes long (one byte 0 for prefix 0, five bytes for
\* prefix 32) and bytes_len(n) is that length.
C19_RoundTripReturnsNetwork ==
    nlri.at = "decoded" =>
        /\ nlri.out = Ok(<<Ipv4Network(network(nlri.n), nlri.n.prefix)>>)
        /\ network(nlri.n) = nlri.n.addr => nlri.out = Ok(<<nlri.n>>)
        /\ Len(nlri.bytes) = EncodedLength(nlri.n.prefix)
        /\ nlri.len = EncodedLength(nlri.n.prefix)
        /\ nlri.n.prefix = 0 => nlri.bytes = <<0>>
        /\ nlri.n.prefix = 32 => Len(nlri.bytes) = 5

\* C19 witness: 220.5.255.255/32 went through the codec in five bytes and
\* came back as itself.
C19_Witness ==
    /\ nlri.at = "decoded"
    /\ nlri.n = Ipv4Network(<<220, 5, 255, 255>>, 32)
    /\ nlri.bytes = <<32, 220, 5, 255, 255>>
    /\ nlri.out = Ok(<<nlri.n>>)

\* C16: Rib::insert of an entry equal to one already present changes
\* nothing, whatever the status of the present entry; insert of an entry
\* not present adds it with status New and changes no other entry.
C16_InsertKeepsStatus ==
    rib_call.op = "insert" =>
        LET before == rib_call.before
            entry == rib_call.entry
        IN  IF entry \in DOMAIN before
            THEN rib = before
            ELSE /\ DOMAIN rib = DOMAIN before \cup {entry}
                 /\ rib[entry] = "New"
                 /\ \A e \in DOMAIN before : rib[e] = before[e]

\* C16 witness: an entry that was UnChanged was inserted again, next to an
\* entry for the same network with another AS_PATH.
C16_Witness ==
    /\ rib_call.op = "insert"
    /\ rib_call.entry \in DOMAIN rib_call.before
    /\ rib_call.before[rib_call.entry] = "UnChanged"
    /\ \E e \in DOMAIN rib :
           /\ e # rib_call.entry
           /\ e.network_address = rib_call.entry.network_address

\* C17: right after update_to_all_changed no entry of the Rib is New and
\* the Rib has the entries it had before the call.
C17_NoNewAfterUpdate ==
    rib_call.op = "update_to_all_changed" =>
        /\ \A e \in DOMAIN rib : rib[e] # "New"
        /\ DOMAIN rib = DOMAIN rib_call.before

\* C17 witness: update_to_all_changed ran on a Rib with a New entry and an
\* UnChanged one.
C17_Witness ==
    /\ rib_call.op = "update_to_all_changed"
    /\ \E e \in DOMAIN rib_call.before : rib_call.before[e] = "New"
    /\ \E e \in DOMAIN rib_call.before : rib_call.before[e] = "UnChanged"

\* The pairs of state and event the transition table has a row for.
HasRow(s, t) ==
    \/ s = "Idle" /\ t = "ManualStart"
    \/ s = "Connect" /\ t = "TcpConnectionConfirmed"
    \/ s = "OpenSent" /\ t = "BgpOpen"
    \/ s = "OpenConfirm" /\ t = "KeepAliveMsg"
    \/ s = "Established" /\ t \in {"Established", "LocRibChanged",
                                     "AdjRibOutChanged", "UpdateMsg",
                                     "AdjRibInChanged"}

\* C18: handling an event in a state that has no row for it only consumes
\* the event: the state, the Adj-RIB-In, the Adj-RIB-Out, the shared Loc-RIB,
\* the kernel table and the rest of the queue stay as they were and nothing
\* is sent.
C18_NoRowNoEffect ==
    [][\A p \in Peers :
          (Handled(p) /\ ~HasRow(state[p], event'[p].type)) =>
              /\ state'[p] = state[p]
              /\ adj_rib_in'[p] = adj_rib_in[p]
              /\ adj_rib_out'[p] = adj_rib_out[p]
              /\ loc_rib' = loc_rib
              /\ fib' = fib
              /\ event_queue'[p] = Tail(event_queue[p])
              /\ sock' = sock]_vars

\* C18 witness: A, Established, has just been handed a BgpOpen.
C18_Witness ==
    /\ pc["A"] = "read"
    /\ state["A"] = "Established"
    /\ event["A"].type = "BgpOpen"

\* The entries of p's Loc-RIB that may be advertised to p's remote peer.
Advertisable(p) ==
    {e \in DOMAIN loc_rib[ProcOf(p)] :
        Config(p).remote_as \notin SeqRange(AsPathOf(e))}

\* C20: handling Established or LocRibChanged in Established leaves the
\* Adj-RIB-Out with exactly the Loc-RIB entries whose AS_PATH lacks the
\* remote AS, none of them New; it enqueues AdjRibOutChanged when it added an
\* entry and nothing otherwise; when the Adj-RIB-Out already held those
\* entries it changes nothing.
C20_RebuildAdjRibOut ==
    [][\A p \in Peers :
          (/\ Handled(p)
           /\ state[p] = "Established"
           /\ event'[p].type \in {"Established", "LocRibChanged"}) =>
              /\ DOMAIN adj_rib_out'[p] = Advertisable(p)
              /\ \A e \in DOMAIN adj_rib_out'[p] : adj_rib_out'[p][e] # "New"
              /\ EnqBy(p) =
                     IF Advertisable(p) \ DOMAIN adj_rib_out[p] # {}
                     THEN <<Ev("AdjRibOutChanged")>> ELSE <<>>
              /\ DOMAIN adj_rib_out[p] = Advertisable(p) =>
                     adj_rib_out'[p] = adj_rib_out[p]
              /\ state'[p] = state[p]
              /\ loc_rib' = loc_rib
              /\ sock' = sock]_vars

\* C20 witness: C handled Established after B had put the route learned from
\* A into the shared Loc-RIB: both entries went into C's Adj-RIB-Out and
\* AdjRibOutChanged is queued.
C20_Witness ==
    /\ pc["C"] = "read"
    /\ event["C"].type = "Established"
    /\ Cardinality(DOMAIN adj_rib_out["C"]) = 2
    /\ event_queue["C"] = <<Ev("AdjRibOutChanged")>>

\* The pairs of state and event whose row sends on the connection.
RowSends(p, s, t) ==
    \/ s = "Connect" /\ t = "TcpConnectionConfirmed"
    \/ s = "OpenSent" /\ t = "BgpOpen"
    \/ s = "Established" /\ t = "AdjRibOutChanged" /\ adj_rib_out[p] # RibNew

\* C13: a failed write ends the peer.  On a reset stream write_all fails; the
\* step that sends the OPEN, the KEEPALIVE or an UPDATE then leaves the peer
\* terminated and in the state it was in.
C13_FailedSendTerminates ==
    [][\A p \in Peers :
          (/\ Handled(p)
           /\ tcp_connection[p]
           /\ StreamReset(p)
           /\ RowSends(p, state[p], event'[p].type)) =>
              /\ pc'[p] = "down"
              /\ state'[p] = state[p]]_vars

\* The kernel route write_to_kernel_routing_table installs for an entry.
RouteOf(e) == KernelRoute(e.network_address, AttrOf(e, "NextHop"))

\* C14: when the kernel does not take an entry during the AdjRibInChanged
\* handler, the peer goes on and the entry is still New after the handler,
\* for the next write_to_kernel_routing_table to try again.
C14_FailedInstallStaysNew ==
    [][\A p \in Peers :
          (/\ Handled(p)
           /\ state[p] = "Established"
           /\ event'[p].type = "AdjRibInChanged") =>
              /\ pc'[p] = "read"
              /\ \A e \in DOMAIN loc_rib'[ProcOf(p)] :
                     RouteOf(e) \notin fib'[ProcOf(p)] =>
                         loc_rib'[ProcOf(p)][e] = "New"]_vars

\* C15: no Adj-RIB-In and no Loc-RIB holds an entry whose AS_PATH contains
\* the local AS of its peer, and handling an UpdateMsg whose AS_PATH contains
\* the local AS installs nothing and enqueues nothing.
C15_AdjRibInLoopFree ==
    [][\A p \in Built :
          /\ \A e \in DOMAIN adj_rib_in'[p] \cup DOMAIN loc_rib'[ProcOf(p)] :
                 Config(p).local_as \notin SeqRange(AsPathOf(e))
          /\ (/\ Handled(p)
              /\ state[p] = "Established"
              /\ event'[p].type = "UpdateMsg"
              /\ Config(p).local_as \in
                     SeqRange(AsPathOf(RibEntry(Net2,
                                  event'[p].msg.path_attributes)))) =>
                 /\ adj_rib_in'[p] = adj_rib_in[p]
                 /\ EnqBy(p) = <<>>]_vars

\* C15 witness: A, Established, handled an UPDATE whose AS_PATH is
\* <<AS_B, AS_A>> and its Adj-RIB-In holds no entry with that path.
C15_Witness ==
    /\ pc["A"] = "read"
    /\ state["A"] = "Established"
    /\ event["A"].type = "UpdateMsg"
    /\ AS_A \in SeqRange(AsPathOf(RibEntry(Net2,
                              event["A"].msg.path_attributes)))
    /\ \A e \in DOMAIN adj_rib_in["A"] : AS_A \notin SeqRange(AsPathOf(e))

\* The messages of the frames written before the first one that is not a
\* valid message.
RECURSIVE ValidPrefix(_)
ValidPrefix(frames) ==
    IF frames = <<>> \/ Head(frames).msg = NoMessage THEN <<>>
    ELSE <<Head(frames).msg>> \o ValidPrefix(Tail(frames))

\* C11: once the head of the receive buffer is not a valid message the
\* session is over and nothing that follows on the stream is delivered:
\* what get_message has returned is the start of the valid messages written
\* before the first bad frame.
C11_NoDeliveryAfterBadFrame == IsPrefix(returned, ValidPrefix(wrote))

\* C12: on a stream of valid messages in chunks of any size, get_message
\* returns the messages written, in order.  A call returns none and keeps
\* the buffer while the buffer holds fewer than 19 bytes or fewer than the
\* length field (bytes 16 and 17, big-endian) says; otherwise it returns the
\* next message and takes exactly that many bytes off the front.
C12_FramingInOrder ==
    [][(wrote' = wrote /\ Len(ValidPrefix(wrote)) = Len(wrote)) =>
          LET n == Len(conn_stream) - Len(conn_stream')
              buf == conn_buffer \o SubSeq(conn_stream, 1, n)
              length == buf[17] * 256 + buf[18]
          IN  /\ IsPrefix(returned', ValidPrefix(wrote))
              /\ IF Len(buf) < 19 \/ Len(buf) < length
                 THEN /\ returned' = returned
                      /\ conn_buffer' = buf
                 ELSE /\ returned' =
                             Append(returned, wrote[Len(returned) + 1].msg)
                      /\ conn_buffer' = SubSeq(buf, length + 1, Len(buf))]_vars

\* C12 witness: a KEEPALIVE, an OPEN and an UPDATE came back in the order
\* written, the last one from a buffer that had held a part of it.
C12_Witness ==
    /\ Len(returned) = 3
    /\ returned = ValidPrefix(wrote)
    /\ returned[1].type = "Keepalive"
    /\ returned[2].type = "Open"
    /\ returned[3].type = "Update"
    /\ conn_buffer = <<>> /\ conn_stream = <<>>

\* The bytes the encodings of a list of networks take.
RECURSIVE EncodedLengths(_)
EncodedLengths(networks) ==
    IF networks = <<>> THEN 0
    ELSE EncodedLength(Head(networks).prefix) + EncodedLengths(Tail(networks))

\* C24: from_u8_slice on the encodings of a list of networks, one after
\* another, returns that list in order, a default route followed by other
\* networks included, and the encodings are 1 + ceil(p/8) bytes each; with
\* a prefix byte above 32 it returns an error.
C24_ListRoundTrip ==
    nlri.at = "decoded" =>
        IF nlri.bad THEN nlri.out = Err
        ELSE /\ nlri.out = Ok(nlri.networks)
             /\ Len(nlri.bytes) = EncodedLengths(nlri.networks)

\* C21: handling AdjRibOutChanged in Established on a stream that is up
\* sends as many UPDATEs as the Adj-RIB-Out has entries, one for each entry,
\* advertised before or not: an UPDATE for the entry's network with Origin
\* Igp, the entry's AS_PATH behind the local AS and the local address as
\* NextHop; Adj-RIB-Out, Loc-RIB and the state stay as they were and nothing
\* is enqueued.
C21_OneUpdatePerEntry ==
    [][\A p \in Peers :
          (/\ Handled(p)
           /\ state[p] = "Established"
           /\ event'[p].type = "AdjRibOutChanged"
           /\ link[p] /\ ~closed[Remote(p)]) =>
              /\ Len(SentBy(p)) = Cardinality(DOMAIN adj_rib_out[p])
              /\ \A e \in DOMAIN adj_rib_out[p] :
                     \E i \in 1..Len(SentBy(p)) :
                        LET m == SentBy(p)[i]
                            attrs == SeqRange(m.path_attributes)
                        IN  /\ m.type = "Update"
                            /\ m.nlri = <<e.network_address>>
                            /\ Len(m.path_attributes) = 3
                            /\ Origin("Igp") \in attrs
                            /\ AsSequence(<<Config(p).local_as>>
                                              \o AsPathOf(e)) \in attrs
                            /\ NextHop(Config(p).local_ip) \in attrs
              /\ sock'[Remote(p)] = sock[Remote(p)] \o SentBy(p)
              /\ adj_rib_out' = adj_rib_out
              /\ loc_rib' = loc_rib
              /\ state' = state
              /\ event_queue'[p] = Tail(event_queue[p])]_vars

\* C21 witness: C handled AdjRibOutChanged a second time, with two entries
\* in its Adj-RIB-Out: the stream to D holds the UPDATE of the first time
\* and two more, one of them for the network advertised before.
C21_Witness ==
    /\ pc["C"] = "read"
    /\ event["C"].type = "AdjRibOutChanged"
    /\ Cardinality(DOMAIN adj_rib_out["C"]) = 2
    /\ Len(sock[Remote("C")]) = 3
    /\ \A i \in 1..3 : sock[Remote("C")][i].type = "Update"
    /\ \E i \in 2..3 : sock[Remote("C")][i] = sock[Remote("C")][1]

\* C22: the install, the check, the kernel write and the mark of the
\* AdjRibInChanged arm are one critical section on the shared Loc-RIB.  No
\* peer inserts an entry while another peer of the process stands between
\* its write_to_kernel_routing_table and its update_to_all_changed: such an
\* entry would be marked UnChanged without having been written to the kernel
\* table and without a LocRibChanged of the peer that inserted it.
C22_OneCriticalSection ==
    [][\A p \in Peers :
          (pc[p] = "mark" /\ pc'[p] = "mark") =>
              DOMAIN loc_rib'[ProcOf(p)] = DOMAIN loc_rib[ProcOf(p)]]_vars

\* C23: route exchange quiesces.  With A and B Established, their seeded
\* routes and nothing else writing to the stream, from some point on no
\* UPDATE is sent and both event queues are empty for good; and no UPDATE
\* written towards a peer carries that peer's AS in its AS_PATH, so a route
\* is never advertised back to the neighbour it was learned from.
C23_Quiesces ==
    /\ (state["A"] = "Established" /\ state["B"] = "Established")
           ~> [](Quiescent)
    /\ <>[][\A p \in Peers : \A i \in 1..Len(sock'[p]) :
                (i > Len(sock[p]) => sock'[p][i].type # "Update")]_vars
    /\ [][\A p \in {"A", "B"} : \A i \in 1..Len(SentBy(p)) :
              SentBy(p)[i].type = "Update" =>
                  Config(p).remote_as \notin
                      SeqRange(AsPathOf(RibEntry(Net1,
                                   SentBy(p)[i].path_attributes)))]_vars

\* C23 witness: A and B are Established, each holds the other's route in
\* its Loc-RIB and has handled the LocRibChanged that followed, and nothing
\* is queued or on the wire.
C23_Witness ==
    /\ state["A"] = "Established" /\ state["B"] = "Established"
    /\ \E e \in DOMAIN loc_rib["P1"] : AS_B \in SeqRange(AsPathOf(e))
    /\ \E e \in DOMAIN loc_rib["P2"] : AS_A \in SeqRange(AsPathOf(e))
    /\ \A e \in DOMAIN loc_rib["P1"] : loc_rib["P1"][e] = "UnChanged"
    /\ \A e \in DOMAIN loc_rib["P2"] : loc_rib["P2"][e] = "UnChanged"
    /\ \A e \in DOMAIN adj_rib_out["A"] : AS_B \notin SeqRange(AsPathOf(e))
    /\ \A e \in DOMAIN adj_rib_out["B"] : AS_A \notin SeqRange(AsPathOf(e))
    /\ Quiescent

====
